---- MODULE Spec2Model ----
(***************************************************************************)
(* TokenScope listing detection: the per-venue scanners                    *)
(* (backend/scanners/base_scanner.py and its subclasses), the Binance      *)
(* announcement scanner and the orchestrator (main_scanner.py).            *)
(*                                                                         *)
(* A coroutine is cut at its await points: one action per network call     *)
(* together with the synchronous code that follows it up to the next       *)
(* await or return.                                                        *)
(***************************************************************************)
EXTENDS Integers, Sequences, FiniteSets, TLC

\* ------------------------------------------------------------------ bounds
NumPairs == 2
MaxCalls == 3
MaxCycles == 2
MaxArticles == 1
NumOrchPairs == 1
NumSymbols == 2
MaxBatch == 2

\* --------------------------------------------------------------- constants
Pairs == 1..NumPairs
\* The pairs a venue may list while the orchestrator runs.
OrchPairs == 1..NumOrchPairs

\* The order of the tasks list handed to asyncio.gather, and of the names
\* the combine loop indexes.
VenueOrder == <<"Gate.io", "MEXC", "KuCoin", "Binance">>
Venues == {VenueOrder[i] : i \in DOMAIN VenueOrder}
\* The BaseScanner subclasses.
BaseVenues == {"Gate.io", "MEXC", "KuCoin"}

FetchOutcomes == {"ok", "fail"}
TickerOutcomes == {"ok", "http_error", "empty", "error"}

VARIABLES
    listed,              \* venue side: the pairs each venue reports as tradable
    last_scan_pairs,     \* BaseScanner.last_scan_pairs, per scanner
    seen_announcements,  \* BinanceScanner.seen_announcements
    pc,                  \* position of each scanner's scan() coroutine
    current_set,         \* detect_new_listings local
    new_pairs,           \* detect_new_listings local
    pending,             \* pairs the for loop has not visited yet
    new_listings,        \* detect_new_listings local
    result,              \* what scan() returned (or raised)
    opc,                 \* position of run_all_scanners
    cycles,              \* orchestrator cycles started
    completion,          \* venues in the order their scan() finished
    all_new_listings,    \* run_all_scanners' return value
    venue_log,           \* the branch the combine loop took for each venue
    underTest,           \* the scanner a venue module's test() drives
    calls,               \* history: scan() calls on the scanner object
    fetch_outcome,       \* history: how this call's fetch_all_pairs went
    prev_fetch,          \* history: outcome and set of the previous call
    ticker_ok,           \* history: pairs whose details came back this call
    failed_before,       \* history: see NoteTickerFailures
    apc,                 \* position of analyze_listing
    source_exchange,     \* listing['exchange'] of the listing being analysed
    price_exp,           \* decimal places of the symbol's prices
    gate_pair,           \* _get_gateio_price: index into pairs_to_try
    task_result,         \* what each price task of the gather returned
    quoted,              \* history: venues whose answer held a ticker
    price_data,          \* what get_all_prices returned (or raised)
    opportunity,         \* what analyze_listing returned (or raised)
    st_price_data,       \* _calculate_strategy argument price_data
    st_exp,              \* decimal places of the entry price
    st_urgency,          \* _calculate_strategy argument urgency
    st_strategy,         \* what _calculate_strategy returned
    listings_db,         \* the listings collection, in insertion order
    saved_count,         \* what save_listings_to_db returned
    last_inserted,       \* history: records the last save call inserted
    batch_repeats,       \* history: the last batch held a listing twice
    opportunities_db,    \* the opportunities collection, in insertion order
    dpc,                 \* position of process_new_listings
    to_analyze,          \* process_new_listings: listings not yet visited
    opportunities_found, \* process_new_listings local
    analysis_outcome,    \* history: how the last analyze_listing call ended
    alpc,                \* position of send_pending_alerts
    pending_alerts,      \* send_pending_alerts: opportunities not yet visited
    alerts_sent,         \* send_pending_alerts local
    processed,           \* history: urgencies visited in this run, in order
    delivery_outcome     \* history: how the last delivery ended

scanVars == <<listed, last_scan_pairs, seen_announcements, pc,
              current_set, new_pairs, pending, new_listings, result, opc,
              cycles, completion, all_new_listings, venue_log, underTest,
              calls, fetch_outcome, prev_fetch, ticker_ok, failed_before>>

analysisVars == <<apc, source_exchange, price_exp, gate_pair,
                  task_result, quoted, price_data, opportunity>>

strategyVars == <<st_price_data, st_exp, st_urgency, st_strategy>>

saveVars == <<saved_count, last_inserted, batch_repeats>>
detectVars == <<dpc, to_analyze, opportunities_found, analysis_outcome>>
alertVars == <<alpc, pending_alerts, alerts_sent, processed, delivery_outcome>>
storeVars == <<listings_db, opportunities_db, saveVars, detectVars, alertVars>>

\* The variables of the services, for the scanners' actions to leave alone.
serviceVars == <<analysisVars, strategyVars, storeVars>>
\* The variables analyze_listing leaves alone.
notAnalysisVars == <<scanVars, strategyVars, storeVars>>

vars == <<scanVars, analysisVars, strategyVars, storeVars>>

envVars == <<listed>>
orchVars == <<opc, cycles, all_new_listings, venue_log>>

\* ------------------------------------------------------------ value shapes
ListResult(s) == [kind |-> "list", value |-> s]
RaisedResult == [kind |-> "exception", value |-> <<>>]
NoResult == [kind |-> "none", value |-> <<>>]

PairsReturned(S) == [kind |-> "list", value |-> S]
PairsRaised == [kind |-> "exception", value |-> {}]

\* Pairs 2k-1 and 2k are the same base asset against two quote currencies.
BaseOf(p) == (p + 1) \div 2

Details(p, price) == [kind |-> "details",
                      value |-> [symbol |-> BaseOf(p), pair |-> p,
                                 price |-> price, exchange |-> "?"]]
DetailsNone == [kind |-> "none",
                value |-> [symbol |-> 0, pair |-> 0, price |-> 0,
                           exchange |-> "?"]]
DetailsRaised == [kind |-> "exception",
                  value |-> [symbol |-> 0, pair |-> 0, price |-> 0,
                             exchange |-> "?"]]

SeqToSet(s) == {s[i] : i \in DOMAIN s}
PairsOf(s) == {s[i].pair : i \in DOMAIN s}

\* ------------------------------------------------------------ venue clients

\* fetch_all_pairs of the three venue clients. `tradable` is what the venue
\* would answer; `outcome` is "fail" for a non-200 status, a transport error,
\* a timeout or a payload that does not parse.
fetch_all_pairs(v, outcome, tradable) ==
    IF outcome = "ok" THEN PairsReturned(tradable)
    ELSE IF v = "Gate.io" THEN PairsRaised
    ELSE PairsReturned({})

\* get_pair_details of the three venue clients.
\*   "ok"          200 with ticker data
\*   "http_error"  status other than 200
\*   "empty"       200 with an empty payload
\*   "error"       transport error, timeout, payload that does not convert
get_pair_details(v, p, outcome) ==
    CASE outcome = "ok" -> Details(p, 1)
      [] outcome = "http_error" -> DetailsNone
      [] outcome = "empty" ->
            IF v = "MEXC" THEN Details(p, 0) ELSE DetailsNone
      [] outcome = "error" ->
            IF v = "Gate.io" THEN DetailsRaised ELSE DetailsNone

\* -------------------------------------------------------------- BaseScanner

\* __init__: the scanner starts with an empty memory.
InitialPairs == {}

AllPairsNew(current, last) == current

\* new_pairs = current_set - self.last_scan_pairs
NewPairs(current, last) == current \ last

\* The body of the for loop over new_pairs: details are appended when the
\* client returned some; an exception is caught and the pair skipped.
LoopBodyAppendsAlways(v, listings, p, d) ==
    Append(listings, [d.value EXCEPT !.exchange = v, !.pair = p])

LoopBody(v, listings, p, d) ==
    IF d.kind = "details"
    THEN Append(listings, [d.value EXCEPT !.exchange = v])
    ELSE listings

\* self.last_scan_pairs = current_set, reached after the loop.
MemoryEnrichedOnly(last, current, listings) == last \cup PairsOf(listings)

MemoryKept(last, current, listings) == last

UpdatedMemory(last, current, listings) == current

\* history: the pairs whose ticker failed in an earlier call of this scanner
\* and that the venue has listed ever since.
NoteTickerFailures(v) ==
    (failed_before[v] \cup ((new_pairs[v] \ pending[v]) \ ticker_ok[v]))
        \cap listed[v]

\* scan(): an exception out of detect_new_listings is caught and an empty
\* list returned in its place.
scan(r) == IF r.kind = "exception" THEN ListResult(<<>>) ELSE r

Finish(v) == completion' = Append(completion, v)

\* await self.fetch_all_pairs() and the code up to the loop's first await:
\* the set difference and the early return when nothing is new.  `tradable`
\* is the set of pairs the venue has tradable when the request arrives.
FetchPairs(v, outcome, tradable) ==
    /\ v \in BaseVenues
    /\ pc[v] = "fetch"
    /\ fetch_outcome' = [fetch_outcome EXCEPT ![v] = outcome]
    /\ LET r == fetch_all_pairs(v, outcome, tradable)
           np == NewPairs(r.value, last_scan_pairs[v])
       IN  IF r.kind = "exception"
           THEN /\ result' = [result EXCEPT ![v] = scan(RaisedResult)]
                /\ pc' = [pc EXCEPT ![v] = "done"]
                /\ Finish(v)
                /\ UNCHANGED <<current_set, new_pairs, pending>>
           ELSE /\ current_set' = [current_set EXCEPT ![v] = r.value]
                /\ new_pairs' = [new_pairs EXCEPT ![v] = np]
                /\ pending' = [pending EXCEPT ![v] = np]
                /\ IF np = {}
                   THEN /\ result' = [result EXCEPT ![v] = scan(ListResult(<<>>))]
                        /\ pc' = [pc EXCEPT ![v] = "done"]
                        /\ Finish(v)
                   ELSE /\ pc' = [pc EXCEPT ![v] = "details"]
                        /\ UNCHANGED <<result, completion>>
    /\ UNCHANGED <<serviceVars, envVars, orchVars, last_scan_pairs, seen_announcements,
                   new_listings, underTest, calls, prev_fetch, ticker_ok,
                   failed_before>>

\* One turn of the loop, await self.get_pair_details(pair); after the last
\* pair the memory is replaced and the listings are returned.  A Python set
\* is iterated in no particular order: p is any pair not yet visited.
PairDetails(v, p, outcome) ==
    /\ v \in BaseVenues
    /\ pc[v] = "details"
    /\ p \in pending[v]
    /\ LET d == get_pair_details(v, p, outcome)
           nl == LoopBody(v, new_listings[v], p, d)
       IN  /\ new_listings' = [new_listings EXCEPT ![v] = nl]
           /\ ticker_ok' = [ticker_ok EXCEPT
                  ![v] = IF d.kind = "details" THEN @ \cup {p} ELSE @]
           /\ pending' = [pending EXCEPT ![v] = @ \ {p}]
           /\ IF pending[v] = {p}
              THEN /\ last_scan_pairs' = [last_scan_pairs EXCEPT
                         ![v] = UpdatedMemory(@, current_set[v], nl)]
                   /\ result' = [result EXCEPT ![v] = scan(ListResult(nl))]
                   /\ pc' = [pc EXCEPT ![v] = "done"]
                   /\ Finish(v)
              ELSE UNCHANGED <<last_scan_pairs, result, pc, completion>>
    /\ UNCHANGED <<serviceVars, envVars, orchVars, seen_announcements, current_set,
                   new_pairs, underTest, calls, fetch_outcome, prev_fetch,
                   failed_before>>

\* ------------------------------------------------------------ BinanceScanner

\* _extract_symbols_from_title: the symbols in parentheses in the title of
\* article a.  Odd articles announce one asset, even ones name none.
ArticleSymbols(a) == IF a % 2 = 1 THEN <<a>> ELSE <<>>

BinanceListing(sym) ==
    [symbol |-> sym, pair |-> 0, price |-> 0, exchange |-> "Binance"]

\* The loop over the articles of the page, first to last.
RECURSIVE ScanArticles(_, _, _)
ScanArticles(page, i, seen) ==
    IF i > Len(page) THEN <<>>
    ELSE IF page[i] \in seen THEN ScanArticles(page, i + 1, seen)
    ELSE [j \in DOMAIN ArticleSymbols(page[i]) |->
              BinanceListing(ArticleSymbols(page[i])[j])]
         \o ScanArticles(page, i + 1, seen \cup {page[i]})

\* The articles of the page when n announcements have been published.
Page(n) == [i \in 1..n |-> i]

\* BinanceScanner.scan: one request, then the loop; any failure gives [].
\* `page` is what the venue has on its page when the request arrives.
BinanceScan(outcome, page) ==
    /\ pc["Binance"] = "fetch"
    /\ fetch_outcome' = [fetch_outcome EXCEPT !["Binance"] = outcome]
    /\ IF outcome = "ok"
       THEN /\ seen_announcements' = seen_announcements \cup SeqToSet(page)
            /\ result' = [result EXCEPT !["Binance"] =
                   ListResult(ScanArticles(page, 1, seen_announcements))]
       ELSE /\ result' = [result EXCEPT !["Binance"] = ListResult(<<>>)]
            /\ UNCHANGED seen_announcements
    /\ pc' = [pc EXCEPT !["Binance"] = "done"]
    /\ Finish("Binance")
    /\ UNCHANGED <<serviceVars, envVars, orchVars, last_scan_pairs, current_set, new_pairs,
                   pending, new_listings, underTest, calls, prev_fetch,
                   ticker_ok, failed_before>>

\* ------------------------------------------------------------- environment

\* A venue lists or delists pairs.
VenueChange(v, S) ==
    /\ v \in BaseVenues
    /\ S \in SUBSET Pairs
    /\ S # listed[v]
    /\ listed' = [listed EXCEPT ![v] = S]
    /\ failed_before' = [failed_before EXCEPT ![v] = @ \cap S]
    /\ UNCHANGED <<serviceVars, last_scan_pairs, seen_announcements, pc, current_set,
                   new_pairs, pending, new_listings, result, orchVars,
                   completion, underTest, calls, fetch_outcome, prev_fetch,
                   ticker_ok>>

\* ------------------------------------------- a venue module's test() driver

NoFetch == [outcome |-> "none", set |-> {}]
PrevFetch(v) == [outcome |-> fetch_outcome[v], set |-> current_set[v]]

\* The driver starts every scan() without waiting for the one before.
NotAwaited(v) == TRUE

\* `result1 = await scanner.scan()`: the driver is suspended until the call
\* has returned, so the next call finds no scan() of that object running.
Awaited(v) == pc[v] \in {"idle", "done"}

\* test(): `async with Scanner() as scanner`, then scanner.scan() again and
\* again on the same object.
CallScan(v) ==
    /\ v = underTest
    /\ Awaited(v)
    /\ calls[v] < MaxCalls
    /\ calls' = [calls EXCEPT ![v] = @ + 1]
    /\ pc' = [pc EXCEPT ![v] = "fetch"]
    /\ prev_fetch' = [prev_fetch EXCEPT ![v] = PrevFetch(v)]
    /\ failed_before' = [failed_before EXCEPT ![v] = NoteTickerFailures(v)]
    /\ fetch_outcome' = [fetch_outcome EXCEPT ![v] = "none"]
    /\ current_set' = [current_set EXCEPT ![v] = {}]
    /\ new_pairs' = [new_pairs EXCEPT ![v] = {}]
    /\ pending' = [pending EXCEPT ![v] = {}]
    /\ new_listings' = [new_listings EXCEPT ![v] = <<>>]
    /\ ticker_ok' = [ticker_ok EXCEPT ![v] = {}]
    /\ result' = [result EXCEPT ![v] = NoResult]
    /\ completion' = <<>>
    /\ UNCHANGED <<serviceVars, envVars, orchVars, last_scan_pairs, seen_announcements,
                   underTest>>

\* scan() called again on the BinanceScanner object under test, the call
\* before it awaited.
CallBinanceScan ==
    /\ underTest = "Binance"
    /\ pc["Binance"] \in {"idle", "done"}
    /\ pc' = [pc EXCEPT !["Binance"] = "fetch"]
    /\ fetch_outcome' = [fetch_outcome EXCEPT !["Binance"] = "none"]
    /\ result' = [result EXCEPT !["Binance"] = NoResult]
    /\ completion' = <<>>
    /\ UNCHANGED <<serviceVars, envVars, orchVars, last_scan_pairs,
                   seen_announcements, current_set, new_pairs, pending,
                   new_listings, underTest, calls, prev_fetch, ticker_ok,
                   failed_before>>

\* ------------------------------------------------------------- MainScanner

\* asyncio.gather(*tasks, return_exceptions=True): the results come back in
\* the order of the tasks list, whatever order the tasks finished in.
GatherAsCompleted(res, finished) == [i \in DOMAIN finished |-> res[finished[i]]]

Gather(res, finished) == [i \in DOMAIN VenueOrder |-> res[VenueOrder[i]]]

\* The branch of the combine loop for one result.
Branch(r) ==
    IF r.kind = "exception" THEN "failed"
    ELSE IF r.kind = "list" THEN "ok"
    ELSE "unexpected"

\* The combine loop: all_new_listings.extend(result) for every list.
RECURSIVE CombineFrom(_, _)
CombineFrom(results, i) ==
    IF i > Len(results) THEN <<>>
    ELSE (IF Branch(results[i]) = "ok" THEN results[i].value ELSE <<>>)
         \o CombineFrom(results, i + 1)

RECURSIVE CombineKeepsLast(_)
CombineKeepsLast(results) ==
    IF results = <<>> THEN <<>>
    ELSE IF Branch(results[Len(results)]) = "ok"
         THEN results[Len(results)].value
         ELSE CombineKeepsLast(SubSeq(results, 1, Len(results) - 1))

Combine(results) == CombineFrom(results, 1)

\* run_all_scanners up to the gather: four new scanner objects, one task each.
\* With `hist` the cycles are counted and what the previous cycle fetched is
\* kept as history; without it any number of cycles is run.
RunAllScanners(hist) ==
    /\ opc = "idle"
    /\ hist => cycles < MaxCycles
    /\ cycles' = IF hist THEN cycles + 1 ELSE 1
    /\ opc' = "gather"
    /\ last_scan_pairs' = [v \in BaseVenues |-> InitialPairs]
    /\ seen_announcements' = {}
    /\ pc' = [v \in Venues |-> "fetch"]
    /\ calls' = [v \in BaseVenues |-> 1]
    /\ prev_fetch' = [v \in BaseVenues |->
                          IF hist THEN PrevFetch(v) ELSE NoFetch]
    /\ failed_before' = [v \in BaseVenues |-> {}]
    /\ fetch_outcome' = [v \in Venues |-> "none"]
    /\ current_set' = [v \in BaseVenues |-> {}]
    /\ new_pairs' = [v \in BaseVenues |-> {}]
    /\ pending' = [v \in BaseVenues |-> {}]
    /\ new_listings' = [v \in BaseVenues |-> <<>>]
    /\ ticker_ok' = [v \in BaseVenues |-> {}]
    /\ result' = [v \in Venues |-> NoResult]
    /\ completion' = <<>>
    /\ all_new_listings' = <<>>
    /\ venue_log' = [v \in Venues |-> "none"]
    /\ UNCHANGED <<serviceVars, envVars, underTest>>

\* The gather barrier opens when every task has finished; then the combine
\* loop runs and run_all_scanners returns.
GatherReturn ==
    /\ opc = "gather"
    /\ \A v \in Venues : pc[v] = "done"
    /\ LET results == Gather(result, completion)
       IN  /\ all_new_listings' = Combine(results)
           /\ venue_log' = [v \in Venues |->
                  Branch(results[CHOOSE i \in DOMAIN VenueOrder :
                                     VenueOrder[i] = v])]
    /\ opc' = "idle"
    /\ UNCHANGED <<serviceVars, envVars, last_scan_pairs, seen_announcements, pc,
                   current_set, new_pairs, pending, new_listings, result,
                   cycles, completion, underTest, calls, fetch_outcome,
                   prev_fetch, ticker_ok, failed_before>>

\* scan_and_save: the summary built from run_all_scanners' return value.
ByExchange(listings) ==
    [v \in {listings[i].exchange : i \in DOMAIN listings} |->
        Cardinality({i \in DOMAIN listings : listings[i].exchange = v})]

Summary(listings) ==
    [total_detected |-> Len(listings), by_exchange |-> ByExchange(listings)]

\* --------------------------------------------------------- PriceAggregator

\* A price is a decimal number n * 10^-e.  All quotes of one symbol are
\* taken to have the same number e of decimal places (price_exp), so a quote
\* carries only its mantissa n; percentages do not depend on e.
Mantissas == {10, 48, 50, 100, 102, 299, 302}
Volumes == {1, 2}
Exponents == {0, 7}

\* How a venue answers one quote request: the request raises (transport
\* error, timeout), the status is not 200 (unknown pair), the status is 200
\* with a payload that holds no ticker ("empty": {} or []), with a ticker
\* whose fields are null ("nulls"), or with a ticker.
NoTicker(k) == [kind |-> k, price |-> 0, volume |-> 0]
Ticker(p, w) == [kind |-> "ticker", price |-> p, volume |-> w]
Answers ==
    {NoTicker(k) : k \in {"error", "http_error", "empty", "nulls"}}
        \cup {Ticker(p, w) : p \in Mantissas, w \in Volumes}

\* What a price task can come back with.
Pending == [kind |-> "pending", exchange |-> "", price |-> 0, volume_24h |-> 0]
None == [kind |-> "None", exchange |-> "", price |-> 0, volume_24h |-> 0]
Continue == [kind |-> "continue", exchange |-> "", price |-> 0, volume_24h |-> 0]
Quote(v, p, w) == [kind |-> "dict", exchange |-> v, price |-> p, volume_24h |-> w]

\* tasks = [...]: the order of the four price tasks.
PriceTasks == <<"Gate.io", "MEXC", "KuCoin", "Binance">>

\* pairs_to_try = [f"{symbol}_USDT", f"{symbol}_USD"]
PairsToTry == <<"USDT", "USD">>

\* The JSON payload of a 200 answer, as far as the clients look at it.
Truthy(a) == a.kind \in {"nulls", "ticker"}
\* Gate.io answers with a list of tickers.
GateioIsList(a) == TRUE
\* data[0].get('last', 0) and float() of it: an empty list has no element 0,
\* float(None) raises; both end in the bare except.
GateioFirstTicker(a) ==
    IF a.kind = "ticker" THEN Quote("Gate.io", a.price, a.volume) ELSE None

\* One turn of _get_gateio_price's for loop.  The quote is built only `if
\* not data or not isinstance(data, list)`; a non-empty list goes on to the
\* next pair.
get_gateio_price(a) ==
    IF a.kind = "error" THEN None
    ELSE IF a.kind = "http_error" THEN Continue
    ELSE IF ~Truthy(a) \/ ~GateioIsList(a) THEN GateioFirstTicker(a)
    ELSE Continue

\* data.get('lastPrice', 0), data.get('quoteVolume', 0) on a JSON object.
FieldsOrDefault(v, a) ==
    IF a.kind = "ticker" THEN Quote(v, a.price, a.volume)
    ELSE IF a.kind = "empty" THEN Quote(v, 0, 0)
    ELSE None

get_mexc_price(a) ==
    IF a.kind = "error" THEN None
    ELSE IF a.kind = "http_error" THEN None
    ELSE FieldsOrDefault("MEXC", a)

\* data = result.get('data', {}) is a JSON object, never a list, so `not
\* data or not isinstance(data, list)` is always true here.
KucoinIsList(a) == FALSE

get_kucoin_price(a) ==
    IF a.kind = "error" THEN None
    ELSE IF a.kind = "http_error" THEN None
    ELSE IF ~Truthy(a) \/ ~KucoinIsList(a) THEN FieldsOrDefault("KuCoin", a)
    ELSE None

get_binance_price(a) ==
    IF a.kind = "error" THEN None
    ELSE IF a.kind = "http_error" THEN None
    ELSE FieldsOrDefault("Binance", a)

\* round() of the non-negative fraction num / den to an integer, ties to even.
RoundHalfEven(num, den) ==
    LET q == num \div den
        r == num % den
    IN  IF 2 * r < den THEN q
        ELSE IF 2 * r > den THEN q + 1
        ELSE IF q % 2 = 0 THEN q ELSE q + 1

\* `if isinstance(result, dict) and 'exchange' in result`: the keys of the
\* prices dict in the order they were inserted.
DictKeys(results) ==
    SelectSeq(PriceTasks, LAMBDA v : results[v].kind = "dict")

CompiledPrices(results) ==
    [v \in {results[t].exchange : t \in SeqToSet(DictKeys(results))} |->
        [price |-> results[v].price, volume_24h |-> results[v].volume_24h]]

\* min(prices.items(), key=lambda x: x[1]['price']): the first item, in the
\* dict's order, whose price no other item is below.
RECURSIVE MinByPrice(_, _, _)
MinByPrice(prices, keys, best) ==
    IF keys = <<>> THEN best
    ELSE MinByPrice(prices, Tail(keys),
             IF prices[Head(keys)].price < prices[best].price
             THEN Head(keys) ELSE best)

\* max(prices.items(), key=lambda x: x[1]['price']), likewise the first.
RECURSIVE MaxByPrice(_, _, _)
MaxByPrice(prices, keys, best) ==
    IF keys = <<>> THEN best
    ELSE MaxByPrice(prices, Tail(keys),
             IF prices[Head(keys)].price > prices[best].price
             THEN Head(keys) ELSE best)

\* round(arb_profit_pct, 2), in hundredths of a percent.
ProfitPct(buy, sell) == RoundHalfEven((sell - buy) * 10000, buy)

\* The flag compared on the rounded percentage.
ProfitableRounded(buy, sell) == ProfitPct(buy, sell) > 100

\* arb_profit_pct > 1.0, on the percentage before rounding.
Profitable(buy, sell) == (sell - buy) * 100 > buy

NoVenuePrice == [exchange |-> "", price |-> 0]
NoArbitrage ==
    [buy_on |-> "", sell_on |-> "", profit_pct |-> 0, profitable |-> FALSE]
NoPrices == [v \in {} |-> [price |-> 0, volume_24h |-> 0]]

NoPriceData ==
    [kind |-> "none", keys |-> {}, prices |-> NoPrices,
     best_buy |-> NoVenuePrice, best_sell |-> NoVenuePrice,
     arbitrage_opportunity |-> NoArbitrage]

\* A result with an empty prices dict and no error key.
EmptySnapshot ==
    [NoPriceData EXCEPT !.kind = "dict",
                        !.keys = {"symbol", "prices", "best_buy", "best_sell",
                                  "arbitrage_opportunity", "timestamp"}]

\* {'symbol': symbol, 'error': 'No prices found'}
NoPricesFound == [NoPriceData EXCEPT !.kind = "dict", !.keys = {"symbol", "error"}]

\* ZeroDivisionError out of get_all_prices.
PriceDataRaised == [NoPriceData EXCEPT !.kind = "raised"]

\* get_all_prices from `# Compile results` on.
get_all_prices(results) ==
    LET keys == DictKeys(results)
        prices == CompiledPrices(results)
    IN  IF keys = <<>> THEN NoPricesFound
        ELSE LET best_buy == MinByPrice(prices, keys, Head(keys))
                 best_sell == MaxByPrice(prices, keys, Head(keys))
                 buy == prices[best_buy].price
                 sell == prices[best_sell].price
             IN  IF buy = 0 THEN PriceDataRaised
                 ELSE [kind |-> "dict",
                       keys |-> {"symbol", "prices", "best_buy", "best_sell",
                                 "arbitrage_opportunity", "timestamp"},
                       prices |-> prices,
                       best_buy |-> [exchange |-> best_buy, price |-> buy],
                       best_sell |-> [exchange |-> best_sell, price |-> sell],
                       arbitrage_opportunity |->
                           [buy_on |-> best_buy, sell_on |-> best_sell,
                            profit_pct |-> ProfitPct(buy, sell),
                            profitable |-> Profitable(buy, sell)]]

\* ------------------------------------------------------ OpportunityDetector

\* price_data.get('prices', {})
PricesOf(pd) == IF "prices" \in pd.keys THEN pd.prices ELSE NoPrices

\* The elif chain with its first two tests in the other order.
ClassifyArbitrageFirst(exchange, pd) ==
    LET prices == PricesOf(pd)
    IN  IF Cardinality(DOMAIN prices) > 1 THEN "ARBITRAGE"
        ELSE IF exchange \in {"Gate.io", "MEXC"} /\ "Binance" \notin DOMAIN prices
        THEN "PRE_BINANCE_LISTING"
        ELSE IF exchange = "Binance" THEN "BINANCE_LISTING"
        ELSE "NEW_LISTING"

classify_opportunity(exchange, pd) ==
    LET prices == PricesOf(pd)
    IN  IF exchange \in {"Gate.io", "MEXC"} /\ "Binance" \notin DOMAIN prices
        THEN "PRE_BINANCE_LISTING"
        ELSE IF Cardinality(DOMAIN prices) > 1 THEN "ARBITRAGE"
        ELSE IF exchange = "Binance" THEN "BINANCE_LISTING"
        ELSE "NEW_LISTING"

\* HIGH for every listing of Gate.io or MEXC, whatever Binance quotes.
HighUrgencyAnyQuotes(exchange, pd) == exchange \in {"Gate.io", "MEXC"}

\* `if exchange in ['Gate.io', 'MEXC']: if 'Binance' not in
\* price_data.get('prices', {})`
HighUrgency(exchange, pd) ==
    /\ exchange \in {"Gate.io", "MEXC"}
    /\ "Binance" \notin DOMAIN PricesOf(pd)

\* CRITICAL from 2.00 on.
CriticalUrgencyFromTwo(arb) == arb.profit_pct >= 200

\* `if arb.get('profit_pct', 0) > 2.0`, profit_pct in hundredths.
CriticalUrgency(arb) == arb.profit_pct > 200

Urgency(exchange, pd) ==
    LET first == "NORMAL"
        second == IF HighUrgency(exchange, pd) THEN "HIGH" ELSE first
    IN  IF CriticalUrgency(pd.arbitrage_opportunity) THEN "CRITICAL"
        ELSE second

\* The exception of analyze_token_with_ai.
AIRaised == [key |-> "raised", value |-> ""]

\* analyze_token_with_ai as _get_ai_recommendation calls it.  Without a
\* client it returns its MANUAL_REVIEW record; with one, formatting the
\* prompt raises before the try block is entered (liquidity_usd is not
\* passed, and 'N/A' has no ':,.0f' form), so the request to the model and
\* its own except branch are never reached.
analyze_token_with_ai(client) ==
    IF ~client THEN [key |-> "recommendation", value |-> "MANUAL_REVIEW"]
    ELSE AIRaised

\* _get_ai_recommendation without its try/except.
AIFailureNotCaught(client) == analyze_token_with_ai(client)

\* try: return analyze_token_with_ai(token_data)
\* except Exception: return {'action': 'MANUAL_REVIEW', 'confidence': 0}
get_ai_recommendation(client) ==
    LET ai_result == analyze_token_with_ai(client)
    IN  IF ai_result = AIRaised
        THEN [key |-> "action", value |-> "MANUAL_REVIEW"]
        ELSE ai_result

NoRecommendation == [key |-> "", value |-> ""]

\* Decimal numbers n * 10^-e.
Dec(n, e) == [n |-> n, e |-> e]

RECURSIVE Pow10(_)
Pow10(k) == IF k = 0 THEN 1 ELSE 10 * Pow10(k - 1)

\* round(x, 6)
Round6(d) ==
    IF d.e <= 6 THEN d
    ELSE Dec(RoundHalfEven(d.n, Pow10(d.e - 6)), 6)

\* entry_price * 1.50 and so on, the multiplier given in hundredths.
Times(d, hundredths) == Dec(d.n * hundredths, d.e + 2)

\* The multipliers of the three urgency branches, in hundredths.
Multipliers(urgency) ==
    IF urgency = "CRITICAL"
    THEN [target_1 |-> 150, target_2 |-> 200, stop_loss |-> 85]
    ELSE IF urgency = "HIGH"
    THEN [target_1 |-> 130, target_2 |-> 160, stop_loss |-> 90]
    ELSE [target_1 |-> 120, target_2 |-> 140, stop_loss |-> 92]

NoStrategy ==
    [kind |-> "none", entry_exchange |-> "", entry_price |-> Dec(0, 0),
     target_1 |-> Dec(0, 0), target_2 |-> Dec(0, 0), stop_loss |-> Dec(0, 0),
     position_size |-> "", time_window |-> ""]

\* A strategy record with every number zero.
ZeroValuedStrategy == [NoStrategy EXCEPT !.kind = "dict"]

\* {'error': 'No valid entry price'}
NoValidEntryPrice == [NoStrategy EXCEPT !.kind = "error"]

calculate_strategy(pd, e, urgency) ==
    LET best_buy == IF "best_buy" \in pd.keys THEN pd.best_buy ELSE NoVenuePrice
        entry_price == Dec(best_buy.price, e)
        m == Multipliers(urgency)
    IN  IF entry_price.n = 0 THEN NoValidEntryPrice
        ELSE [kind |-> "dict",
              entry_exchange |-> best_buy.exchange,
              entry_price |-> entry_price,
              target_1 |-> Round6(Times(entry_price, m.target_1)),
              target_2 |-> Round6(Times(entry_price, m.target_2)),
              stop_loss |-> Round6(Times(entry_price, m.stop_loss)),
              position_size |-> IF urgency = "HIGH" THEN "2-3%" ELSE "1-2%",
              time_window |->
                  IF urgency = "HIGH" THEN "12-24 hours" ELSE "24-48 hours"]

NoOpportunity ==
    [kind |-> "none", source_exchange |-> "", opportunity_type |-> "",
     urgency |-> "", ai_recommendation |-> NoRecommendation,
     strategy |-> NoStrategy]

\* `return None`
OpportunityNone == [NoOpportunity EXCEPT !.kind = "None"]

\* The exception of get_all_prices leaves analyze_listing.
OpportunityRaised == [NoOpportunity EXCEPT !.kind = "raised"]

\* analyze_listing from the return of get_all_prices on.
analyze_listing(exchange, pd, e, client) ==
    IF pd.kind = "raised" THEN OpportunityRaised
    ELSE IF "error" \in pd.keys THEN OpportunityNone
    ELSE LET urgency == Urgency(exchange, pd)
             ai_recommendation ==
                 IF urgency \in {"HIGH", "CRITICAL"}
                 THEN get_ai_recommendation(client)
                 ELSE NoRecommendation
         IN  IF ai_recommendation = AIRaised THEN OpportunityRaised
             ELSE [kind |-> "dict",
                   source_exchange |-> exchange,
                   opportunity_type |-> classify_opportunity(exchange, pd),
                   urgency |-> urgency,
                   ai_recommendation |-> ai_recommendation,
                   strategy |-> calculate_strategy(pd, e, urgency)]

\* History: the venues whose answer to a request of theirs held a ticker.
NoteTicker(v, a) ==
    quoted' = IF a.kind = "ticker" THEN quoted \cup {v} ELSE quoted

\* process_new_listings takes the next listing: analyze_listing starts and
\* get_all_prices creates its four tasks.
AnalyzeListing(exchange, e) ==
    /\ apc \in {"idle", "done"}
    /\ apc' = "prices"
    /\ source_exchange' = exchange
    /\ price_exp' = e
    /\ gate_pair' = 1
    /\ task_result' = [v \in Venues |-> Pending]
    /\ quoted' = {}
    /\ price_data' = NoPriceData
    /\ opportunity' = NoOpportunity
    /\ UNCHANGED notAnalysisVars

\* _get_gateio_price: one request of its loop and what follows it.
GateioPrice(a) ==
    /\ apc = "prices"
    /\ task_result["Gate.io"] = Pending
    /\ NoteTicker("Gate.io", a)
    /\ LET r == get_gateio_price(a)
       IN  IF r = Continue /\ gate_pair < Len(PairsToTry)
           THEN /\ gate_pair' = gate_pair + 1
                /\ UNCHANGED task_result
           ELSE /\ task_result' = [task_result EXCEPT !["Gate.io"] =
                                      IF r = Continue THEN None ELSE r]
                /\ UNCHANGED gate_pair
    /\ UNCHANGED <<notAnalysisVars, apc, source_exchange, price_exp, price_data,
                   opportunity>>

PriceTask(v, r, a) ==
    /\ apc = "prices"
    /\ task_result[v] = Pending
    /\ NoteTicker(v, a)
    /\ task_result' = [task_result EXCEPT ![v] = r]
    /\ UNCHANGED <<notAnalysisVars, apc, source_exchange, price_exp, gate_pair,
                   price_data, opportunity>>

MexcPrice(a) == PriceTask("MEXC", get_mexc_price(a), a)
KucoinPrice(a) == PriceTask("KuCoin", get_kucoin_price(a), a)
BinancePrice(a) == PriceTask("Binance", get_binance_price(a), a)

\* asyncio.gather returns: the rest of get_all_prices and of analyze_listing.
PricesReturn(client) ==
    /\ apc = "prices"
    /\ \A v \in Venues : task_result[v] # Pending
    /\ apc' = "done"
    /\ price_data' = get_all_prices(task_result)
    /\ opportunity' =
           analyze_listing(source_exchange, price_data', price_exp, client)
    /\ UNCHANGED <<notAnalysisVars, source_exchange, price_exp, gate_pair,
                   task_result, quoted>>

\* ------------------------------------------- _calculate_strategy on its own

\* The entry prices and tiers _calculate_strategy is applied to.
StrategyMantissas == {0, 1, 4, 10, 48}
StrategyExponents == {0, 7, 8}
Urgencies == {"CRITICAL", "HIGH", "NORMAL"}

\* A price_data whose best_buy is venue v at mantissa n.
PriceDataWithBestBuy(v, n) ==
    [NoPriceData EXCEPT !.kind = "dict",
                        !.keys = {"symbol", "prices", "best_buy", "best_sell",
                                  "arbitrage_opportunity", "timestamp"},
                        !.best_buy = [exchange |-> v, price |-> n],
                        !.best_sell = [exchange |-> v, price |-> n]]

StrategyIdle ==
    /\ st_price_data = NoPriceData
    /\ st_exp = 0
    /\ st_urgency = "NORMAL"
    /\ st_strategy = NoStrategy

CalculateStrategy ==
    /\ st_strategy = NoStrategy
    /\ st_strategy' = calculate_strategy(st_price_data, st_exp, st_urgency)
    /\ UNCHANGED <<scanVars, analysisVars, storeVars, st_price_data, st_exp,
                   st_urgency>>


\* ------------------------------------------------ the MongoDB collections

Symbols == 1..NumSymbols
\* The venues of the listings handed to save_listings_to_db.
ListingExchanges == {"MEXC", "Binance"}
\* A detected listing, as far as the stores look at it.
Listings == [symbol : Symbols, exchange : ListingExchanges]
\* The batches run_all_scanners hands over.
Batches == UNION {[1..n -> Listings] : n \in 0..MaxBatch}

NeverExisting(db, listing) == FALSE

\* listings_collection.find_one({'symbol': ..., 'exchange': ...}), truthy.
existing(db, listing) ==
    \E i \in DOMAIN db : /\ db[i].symbol = listing.symbol
                         /\ db[i].exchange = listing.exchange

\* The document insert_one stores.  analysed and raised are history: the
\* analyses of this listing that completed, and whether one ever raised.
StoredListing(listing) ==
    [symbol |-> listing.symbol, exchange |-> listing.exchange,
     data_enriched |-> FALSE, alert_sent |-> FALSE,
     analysed |-> 0, raised |-> FALSE]

\* The for loop of save_listings_to_db from listing i on.
RECURSIVE SaveFrom(_, _, _, _)
SaveFrom(db, listings, i, count) ==
    IF i > Len(listings)
    THEN [db |-> db, saved_count |-> count]
    ELSE IF existing(db, listings[i])
         THEN SaveFrom(db, listings, i + 1, count)
         ELSE SaveFrom(Append(db, StoredListing(listings[i])), listings,
                       i + 1, count + 1)

save_listings_to_db(db, listings) ==
    IF listings = <<>>
    THEN [db |-> db, saved_count |-> 0]
    ELSE SaveFrom(db, listings, 1, 0)

\* scan_and_save hands the cycle's listings to save_listings_to_db, which
\* has no await.
SaveListings(listings) ==
    /\ LET saved == save_listings_to_db(listings_db, listings)
       IN  /\ listings_db' = saved.db
           /\ saved_count' = saved.saved_count
           /\ last_inserted' = Len(saved.db) - Len(listings_db)
    /\ batch_repeats' = \E i, j \in DOMAIN listings :
                            i # j /\ listings[i] = listings[j]
    /\ UNCHANGED <<scanVars, analysisVars, strategyVars, opportunities_db,
                   detectVars, alertVars>>

\* ---------------------------------------------------- process_new_listings

\* How an analyze_listing call ends: an opportunity of some urgency, None,
\* or an exception.
AnalysisOutcomes ==
    {[kind |-> "dict", urgency |-> u] : u \in Urgencies}
        \cup {[kind |-> k, urgency |-> ""] : k \in {"None", "raised"}}

\* find({'data_enriched': False, 'alert_sent': False}), as _ids.
NewListingIds(db) ==
    SelectSeq([i \in DOMAIN db |-> i],
              LAMBDA i : ~db[i].data_enriched /\ ~db[i].alert_sent)

\* update_one({'_id': ...}, {'$set': {'data_enriched': True}})
NotMarked(db, id) == db

MarkEnriched(db, id) == [db EXCEPT ![id].data_enriched = TRUE]

\* The opportunity document.  delivered and failed are history: the
\* deliveries of it that succeeded, and whether one ever did not.
StoredOpportunity(listing, urgency) ==
    [symbol |-> listing.symbol, source_exchange |-> listing.exchange,
     urgency |-> urgency, alert_sent |-> FALSE,
     delivered |-> 0, failed |-> FALSE]

\* process_new_listings up to its first await.
ProcessNewListings ==
    /\ dpc = "idle"
    /\ to_analyze' = NewListingIds(listings_db)
    /\ opportunities_found' = 0
    /\ dpc' = IF to_analyze' = <<>> THEN "idle" ELSE "running"
    /\ UNCHANGED <<scanVars, analysisVars, strategyVars, listings_db,
                   opportunities_db, saveVars, analysis_outcome, alertVars>>

\* analyze_listing returns or raises: the rest of the loop body.
AnalyzeNext(outcome) ==
    /\ dpc = "running"
    /\ LET id == Head(to_analyze)
           listing == listings_db[id]
       IN  /\ analysis_outcome' = outcome.kind
           /\ IF outcome.kind = "raised"
              THEN /\ listings_db' = [listings_db EXCEPT ![id].raised = TRUE]
                   /\ UNCHANGED <<opportunities_db, opportunities_found>>
              ELSE /\ listings_db' =
                          [MarkEnriched(listings_db, id) EXCEPT
                               ![id].analysed = @ + 1]
                   /\ IF outcome.kind = "dict"
                      THEN /\ opportunities_db' =
                                  Append(opportunities_db,
                                         StoredOpportunity(listing,
                                                           outcome.urgency))
                           /\ opportunities_found' = opportunities_found + 1
                      ELSE UNCHANGED <<opportunities_db, opportunities_found>>
    /\ to_analyze' = Tail(to_analyze)
    /\ dpc' = IF to_analyze' = <<>> THEN "idle" ELSE "running"
    /\ UNCHANGED <<scanVars, analysisVars, strategyVars, saveVars, alertVars>>

\* ----------------------------------------------------- send_pending_alerts

\* sort('urgency', -1) orders the urgency strings, largest first.
UrgencyDescending == <<"NORMAL", "HIGH", "CRITICAL">>

\* find({'alert_sent': {'$ne': True}}), as _ids.
AllOpportunityIds(db) == [i \in DOMAIN db |-> i]

PendingIds(db) ==
    SelectSeq([i \in DOMAIN db |-> i], LAMBDA i : ~db[i].alert_sent)

\* ... .sort('urgency', -1): documents of one urgency keep their order.
SortedByUrgency(db, ids) ==
    LET of(k) == SelectSeq(ids, LAMBDA i : db[i].urgency = UrgencyDescending[k])
    IN  of(1) \o of(2) \o of(3)

\* _send_opportunity_alert returns True, returns False, or raises.
DeliveryOutcomes == {"True", "False", "raised"}

\* update_one({'symbol': ..., 'exchange': ...}, {'$set': {'alert_sent': True}})
\* updates the first listing that matches.
MarkListingAlerted(db, o) ==
    LET matching == {i \in DOMAIN db : /\ db[i].symbol = o.symbol
                                       /\ db[i].exchange = o.source_exchange}
    IN  IF matching = {}
        THEN db
        ELSE LET first == CHOOSE i \in matching : \A k \in matching : i <= k
             IN  [db EXCEPT ![first].alert_sent = TRUE]

\* send_pending_alerts up to its first await.
SendPendingAlerts ==
    /\ alpc = "idle"
    /\ pending_alerts' =
           SortedByUrgency(opportunities_db, PendingIds(opportunities_db))
    /\ alerts_sent' = 0
    /\ processed' = <<>>
    /\ alpc' = IF pending_alerts' = <<>> THEN "idle" ELSE "running"
    /\ UNCHANGED <<scanVars, analysisVars, strategyVars, listings_db,
                   opportunities_db, saveVars, detectVars, delivery_outcome>>

\* _send_opportunity_alert returns or raises: the rest of the loop body, the
\* sleep included.
SendAlert(outcome) ==
    /\ alpc = "running"
    /\ LET id == Head(pending_alerts)
           o == opportunities_db[id]
       IN  /\ delivery_outcome' = outcome
           /\ processed' = Append(processed, o.urgency)
           /\ IF outcome = "True"
              THEN /\ opportunities_db' =
                          [opportunities_db EXCEPT
                               ![id].alert_sent = TRUE,
                               ![id].delivered = @ + 1]
                   /\ listings_db' = MarkListingAlerted(listings_db, o)
                   /\ alerts_sent' = alerts_sent + 1
              ELSE /\ opportunities_db' =
                          [opportunities_db EXCEPT ![id].failed = TRUE]
                   /\ UNCHANGED <<listings_db, alerts_sent>>
    /\ pending_alerts' = Tail(pending_alerts)
    /\ alpc' = IF pending_alerts' = <<>> THEN "idle" ELSE "running"
    /\ UNCHANGED <<scanVars, analysisVars, strategyVars, saveVars, detectVars>>

StoreIdle ==
    /\ listings_db = <<>>
    /\ saved_count = 0
    /\ last_inserted = 0
    /\ batch_repeats = FALSE
    /\ opportunities_db = <<>>
    /\ dpc = "idle"
    /\ to_analyze = <<>>
    /\ opportunities_found = 0
    /\ analysis_outcome = "none"
    /\ alpc = "idle"
    /\ pending_alerts = <<>>
    /\ alerts_sent = 0
    /\ processed = <<>>
    /\ delivery_outcome = "none"

\* ----------------------------------------------------------- specifications

InitBase ==
    /\ listed = [v \in BaseVenues |-> {}]
    /\ last_scan_pairs = [v \in BaseVenues |-> InitialPairs]
    /\ seen_announcements = {}
    /\ pc = [v \in Venues |-> "idle"]
    /\ current_set = [v \in BaseVenues |-> {}]
    /\ new_pairs = [v \in BaseVenues |-> {}]
    /\ pending = [v \in BaseVenues |-> {}]
    /\ new_listings = [v \in BaseVenues |-> <<>>]
    /\ result = [v \in Venues |-> NoResult]
    /\ opc = "idle"
    /\ cycles = 0
    /\ completion = <<>>
    /\ all_new_listings = <<>>
    /\ venue_log = [v \in Venues |-> "none"]
    /\ calls = [v \in BaseVenues |-> 0]
    /\ fetch_outcome = [v \in Venues |-> "none"]
    /\ prev_fetch = [v \in BaseVenues |-> NoFetch]
    /\ ticker_ok = [v \in BaseVenues |-> {}]
    /\ failed_before = [v \in BaseVenues |-> {}]
    /\ apc = "idle"
    /\ source_exchange = ""
    /\ price_exp = 0
    /\ gate_pair = 1
    /\ task_result = [v \in Venues |-> None]
    /\ quoted = {}
    /\ price_data = NoPriceData
    /\ opportunity = NoOpportunity
    /\ StoreIdle

InitCommon ==
    /\ InitBase
    /\ StrategyIdle

\* One scanner object driven by its module's test().
Init ==
    /\ InitCommon
    /\ underTest \in BaseVenues

Next ==
    \/ \E S \in SUBSET Pairs : VenueChange(underTest, S)
    \/ CallScan(underTest)
    \/ \E o \in FetchOutcomes : FetchPairs(underTest, o, listed[underTest])
    \/ \E p \in Pairs, o \in TickerOutcomes : PairDetails(underTest, p, o)

Spec == Init /\ [][Next]_vars

\* One scanner object of any of the four classes, scanned again and again.
InitDrivers ==
    /\ InitCommon
    /\ underTest \in Venues

NextDrivers ==
    \/ underTest \in BaseVenues /\ Next
    \/ CallBinanceScan
    \/ \E o \in FetchOutcomes, n \in 0..MaxArticles : BinanceScan(o, Page(n))

SpecDrivers == InitDrivers /\ [][NextDrivers]_vars

\* The orchestrator, called cycle after cycle.  What each venue has tradable,
\* or has published, is an input of its request.
InitOrch ==
    /\ InitCommon
    /\ underTest = "none"

OrchSteps ==
    \/ \E v \in BaseVenues, o \in FetchOutcomes, T \in SUBSET OrchPairs :
           FetchPairs(v, o, T)
    \/ \E v \in BaseVenues, p \in OrchPairs, o \in TickerOutcomes :
           PairDetails(v, p, o)
    \/ \E o \in FetchOutcomes, n \in 0..MaxArticles : BinanceScan(o, Page(n))
    \/ GatherReturn

NextOrch == RunAllScanners(FALSE) \/ OrchSteps

SpecOrch == InitOrch /\ [][NextOrch]_vars

\* The same, cycles counted and the previous cycle's fetches remembered.
NextOrchHist == RunAllScanners(TRUE) \/ OrchSteps

SpecOrchHist == InitOrch /\ [][NextOrchHist]_vars

\* The detector analysing listing after listing.
InitAnalysis ==
    /\ InitCommon
    /\ underTest = "none"

NextAnalysis ==
    \/ \E exchange \in Venues, e \in Exponents : AnalyzeListing(exchange, e)
    \/ \E a \in Answers : GateioPrice(a)
    \/ \E a \in Answers : MexcPrice(a)
    \/ \E a \in Answers : KucoinPrice(a)
    \/ \E a \in Answers : BinancePrice(a)
    \/ \E client \in BOOLEAN : PricesReturn(client)

SpecAnalysis == InitAnalysis /\ [][NextAnalysis]_vars

\* The end-to-end scenario: a listing of an early venue, every ticker of the
\* source venue quoting 48 and every ticker of another venue quoting 50.
ScenarioAnswers(v) ==
    {NoTicker(k) : k \in {"error", "http_error", "empty", "nulls"}}
        \cup {Ticker(IF v = source_exchange THEN 48 ELSE 50, w) : w \in Volumes}

NextScenario ==
    \/ \E exchange \in {"Gate.io", "MEXC"} : AnalyzeListing(exchange, 0)
    \/ \E a \in ScenarioAnswers("Gate.io") : GateioPrice(a)
    \/ \E a \in ScenarioAnswers("MEXC") : MexcPrice(a)
    \/ \E a \in ScenarioAnswers("KuCoin") : KucoinPrice(a)
    \/ \E a \in ScenarioAnswers("Binance") : BinancePrice(a)
    \/ \E client \in BOOLEAN : PricesReturn(client)

SpecScenario == InitAnalysis /\ [][NextScenario]_vars

\* _calculate_strategy applied to an entry price and a tier.
InitStrategy ==
    /\ InitBase
    /\ underTest = "none"
    /\ st_price_data \in
           {PriceDataWithBestBuy(v, n) : v \in Venues, n \in StrategyMantissas}
    /\ st_exp \in StrategyExponents
    /\ st_urgency \in Urgencies
    /\ st_strategy = NoStrategy

NextStrategy == CalculateStrategy

SpecStrategy == InitStrategy /\ [][NextStrategy]_vars

\* save_listings_to_db called batch after batch.
NextSave == \E listings \in Batches : SaveListings(listings)

SpecSave == InitAnalysis /\ [][NextSave]_vars

\* The three command-line programs over one database: the scanner saving
\* the listings of one symbol on either venue, the detector and the alert
\* manager.
PipelineBatches ==
    {<<l>> : l \in {x \in Listings : x.symbol = 1}}

NextPipeline ==
    \/ \E listings \in PipelineBatches : SaveListings(listings)
    \/ ProcessNewListings
    \/ \E outcome \in AnalysisOutcomes : AnalyzeNext(outcome)
    \/ SendPendingAlerts
    \/ \E outcome \in DeliveryOutcomes : SendAlert(outcome)

SpecPipeline == InitAnalysis /\ [][NextPipeline]_vars


\* ------------------------------------------------------------------ claims

Returned == opc = "idle" /\ cycles > 0

VenueIndex(v) == CHOOSE i \in DOMAIN VenueOrder : VenueOrder[i] = v

\* The listings of venue v in a combined sequence, in their order.
ListingsOf(listings, v) ==
    LET FromVenue(l) == l.exchange = v IN SelectSeq(listings, FromVenue)

\* C1: the first scan of a scanner object, whose memory is still empty,
\* returns no listing, whatever the venue's fetch returned.
C1_FirstScanReportsNothing ==
    \A v \in BaseVenues :
        (pc[v] = "done" /\ calls[v] = 1) => result[v].value = <<>>

\* C2: a pair that the venue's fetch returned in the previous orchestrator
\* cycle and returns again in this one is not among the listings this cycle
\* reports.
C2_KnownPairsNotReportedAgain ==
    \A v \in BaseVenues :
        (Returned /\ cycles >= 2
           /\ prev_fetch[v].outcome = "ok" /\ fetch_outcome[v] = "ok")
        => PairsOf(ListingsOf(all_new_listings, v))
               \cap (prev_fetch[v].set \cap current_set[v]) = {}

\* C3: after a detect call whose fetch returned `current`, the scanner's
\* memory equals `current`.
C3_MemoryEqualsFetched ==
    \A v \in BaseVenues :
        (pc[v] = "done" /\ fetch_outcome[v] = "ok")
        => last_scan_pairs[v] = current_set[v]

\* C4: a pair whose ticker failed in an earlier call of the same scanner,
\* and that has been listed ever since, is not reported by a later call.
C4_FailedTickerNotReportedLater ==
    \A v \in BaseVenues :
        /\ PairsOf(new_listings[v]) \cap failed_before[v] = {}
        /\ PairsOf(result[v].value) \cap failed_before[v] = {}

C4_Witness ==
    \E v \in BaseVenues :
        /\ pc[v] = "done" /\ calls[v] >= 2 /\ fetch_outcome[v] = "ok"
        /\ failed_before[v] \cap current_set[v] # {}
        /\ new_pairs[v] # {}

\* C5: a scan right after a scan of the same scanner, both fetches
\* succeeding with the same set of pairs, returns no listing.
C5_RepeatedScanFindsNothing ==
    \A v \in BaseVenues :
        (pc[v] = "done" /\ fetch_outcome[v] = "ok"
           /\ prev_fetch[v].outcome = "ok"
           /\ prev_fetch[v].set = current_set[v])
        => result[v] = ListResult(<<>>)

C5_Witness ==
    \E v \in BaseVenues :
        /\ pc[v] = "done" /\ calls[v] = 2
        /\ fetch_outcome[v] = "ok" /\ prev_fetch[v].outcome = "ok"
        /\ prev_fetch[v].set = current_set[v]
        /\ current_set[v] = Pairs
        /\ last_scan_pairs[v] = Pairs

\* C6: a scan whose fetch of the pairs failed ends in a failure, not in a
\* list.
C6_FetchFailureIsReported ==
    \A v \in BaseVenues :
        (pc[v] = "done" /\ fetch_outcome[v] = "fail")
        => result[v].kind = "exception"

\* C7: after an orchestrator cycle every venue whose request failed is
\* recorded as failed.
C7_FailedVenueRecordedFailed ==
    \A v \in Venues :
        (Returned /\ fetch_outcome[v] = "fail") => venue_log[v] = "failed"

\* C8: the combined result of a cycle holds, for every venue whose scan
\* returned a list, exactly that venue's listings, and with them every pair
\* whose details came back; failures of other venues take nothing away.
C8_SuccessfulVenuesKept ==
    Returned =>
        /\ \A v \in Venues :
               result[v].kind = "list"
               => ListingsOf(all_new_listings, v) = result[v].value
        /\ \A v \in BaseVenues :
               ticker_ok[v] \subseteq PairsOf(ListingsOf(all_new_listings, v))

C8_Witness ==
    /\ Returned
    /\ \E f \in Venues, g \in BaseVenues :
           /\ fetch_outcome[f] = "fail"
           /\ completion[1] = f
           /\ fetch_outcome[g] = "ok"
           /\ ticker_ok[g] # {}
           /\ ListingsOf(all_new_listings, g) # <<>>

\* C9: the combined listings are grouped in the configured venue order.
C9_GroupedInVenueOrder ==
    \A i, j \in DOMAIN all_new_listings :
        i < j => VenueIndex(all_new_listings[i].exchange)
                     <= VenueIndex(all_new_listings[j].exchange)

C9_Witness ==
    /\ Returned
    /\ \E i, j \in DOMAIN completion :
           /\ i < j
           /\ VenueIndex(completion[i]) > VenueIndex(completion[j])
           /\ ListingsOf(all_new_listings, completion[i]) # <<>>
           /\ ListingsOf(all_new_listings, completion[j]) # <<>>

\* C10: a detect call in which some tickers failed still returns a list,
\* holding one listing for each new pair whose details came back and none
\* for the others.
C10_FailedTickersSkipped ==
    \A v \in BaseVenues :
        (pc[v] = "done" /\ fetch_outcome[v] = "ok" /\ new_pairs[v] # {})
        => /\ result[v].kind = "list"
           /\ PairsOf(result[v].value) = ticker_ok[v]
           /\ Len(result[v].value) = Cardinality(ticker_ok[v])

C10_Witness ==
    \E v \in BaseVenues :
        /\ pc[v] = "done" /\ fetch_outcome[v] = "ok"
        /\ ticker_ok[v] # {}
        /\ new_pairs[v] \ ticker_ok[v] # {}
        /\ result[v].value # <<>>

Analysed == apc = "done"
Snapshot == Analysed /\ "prices" \in price_data.keys
\* The venues whose price task came back with a quote.
Responding == {v \in Venues : task_result[v].kind = "dict"}
Produced == Analysed /\ opportunity.kind = "dict"

C13_PriceMapIsQuotingVenues ==
    Snapshot => DOMAIN price_data.prices = quoted

\* C14: when the lowest price among the responding venues is zero, the
\* aggregation returns the error result: it does not raise and returns no
\* snapshot.
C14_ZeroLowestPriceGivesNoQuotes ==
    (Analysed /\ \E v \in Responding : task_result[v].price = 0) =>
        /\ price_data.kind = "dict"
        /\ "error" \in price_data.keys
        /\ "prices" \notin price_data.keys

\* Venue names in lexicographic order.
NameOrder == <<"Binance", "Gate.io", "KuCoin", "MEXC">>
NameRank(v) == CHOOSE i \in DOMAIN NameOrder : NameOrder[i] = v
\* Of the venues S, the one with the greatest volume, the lexicographically
\* first of them if several have it.
PreferredOf(prices, S) ==
    CHOOSE v \in S : \A w \in S \ {v} :
        \/ prices[v].volume_24h > prices[w].volume_24h
        \/ /\ prices[v].volume_24h = prices[w].volume_24h
           /\ NameRank(v) < NameRank(w)
AtPrice(prices, p) == {v \in DOMAIN prices : prices[v].price = p}

\* C15: best_buy has the minimum price and best_sell the maximum price of
\* the price map, and among venues tied on that price the one of greater
\* 24h volume is chosen, the lexicographically first name if volumes tie too.
C15_TiesByVolumeThenName ==
    Snapshot =>
        LET prices == price_data.prices
            buy == price_data.best_buy
            sell == price_data.best_sell
        IN  /\ \A v \in DOMAIN prices : /\ buy.price <= prices[v].price
                                         /\ sell.price >= prices[v].price
            /\ buy.exchange = PreferredOf(prices, AtPrice(prices, buy.price))
            /\ sell.exchange = PreferredOf(prices, AtPrice(prices, sell.price))

\* C16 as stated: profit_pct is the percentage rounded to two decimals and
\* profitable is true exactly when that rounded percentage is above 1.0.
C16_ProfitableOnRoundedPct ==
    Snapshot =>
        LET arb == price_data.arbitrage_opportunity
            buy == price_data.best_buy.price
            sell == price_data.best_sell.price
        IN  /\ 2 * arb.profit_pct * buy <= 2 * (sell - buy) * 10000 + buy
            /\ 2 * arb.profit_pct * buy >= 2 * (sell - buy) * 10000 - buy
            /\ arb.profitable <=> arb.profit_pct > 100

\* C16: profit_pct is (best_sell - best_buy) / best_buy * 100 rounded to two
\* decimals (it is within half a hundredth of the percentage), and
\* profitable is true exactly when the percentage before rounding is above
\* 1.0; lowest price 100 and highest 102 give 2.00 and profitable.
C16_ProfitableOnExactPct ==
    Snapshot =>
        LET arb == price_data.arbitrage_opportunity
            buy == price_data.best_buy.price
            sell == price_data.best_sell.price
        IN  /\ 2 * arb.profit_pct * buy <= 2 * (sell - buy) * 10000 + buy
            /\ 2 * arb.profit_pct * buy >= 2 * (sell - buy) * 10000 - buy
            /\ arb.profitable <=> (sell - buy) * 100 > buy
            /\ (buy = 100 /\ sell = 102) =>
                   /\ arb.profit_pct = 200
                   /\ arb.profitable
                   /\ price_data.prices[arb.buy_on].price = 100
                   /\ price_data.prices[arb.sell_on].price = 102

\* The percentage is 1.0033..., reported as 1.0, and the flag is set.
C16_Witness ==
    /\ Snapshot
    /\ price_data.best_buy.price = 299
    /\ price_data.best_sell.price = 302
    /\ price_data.arbitrage_opportunity.profit_pct = 100
    /\ price_data.arbitrage_opportunity.profitable

EarlyWithoutMajor ==
    /\ source_exchange \in {"Gate.io", "MEXC"}
    /\ "Binance" \notin Responding

\* C17: the opportunity type is PRE_BINANCE_LISTING when the source venue is
\* Gate.io or MEXC and Binance is not among the responding venues; otherwise
\* ARBITRAGE when more than one venue responded; otherwise BINANCE_LISTING
\* when the source venue is Binance; otherwise NEW_LISTING.
C17_TypePrecedence ==
    Produced =>
        LET type == opportunity.opportunity_type
            several == Cardinality(Responding) > 1
        IN  /\ EarlyWithoutMajor => type = "PRE_BINANCE_LISTING"
            /\ (~EarlyWithoutMajor /\ several) => type = "ARBITRAGE"
            /\ (~EarlyWithoutMajor /\ ~several /\ source_exchange = "Binance")
                   => type = "BINANCE_LISTING"
            /\ (~EarlyWithoutMajor /\ ~several /\ source_exchange # "Binance")
                   => type = "NEW_LISTING"

\* A MEXC listing quoted by MEXC and KuCoin and not by Binance: both the
\* first and the second test hold, and the first decides.
C17_Witness ==
    /\ Produced
    /\ source_exchange = "MEXC"
    /\ Responding = {"MEXC", "KuCoin"}
    /\ opportunity.opportunity_type = "PRE_BINANCE_LISTING"

\* C18: urgency is CRITICAL when the reported profit percentage is above
\* 2.00 (2.00 itself is not); otherwise HIGH when the type is
\* PRE_BINANCE_LISTING; otherwise NORMAL.
C18_UrgencyTiers ==
    Produced =>
        LET pct == price_data.arbitrage_opportunity.profit_pct
            pre == opportunity.opportunity_type = "PRE_BINANCE_LISTING"
        IN  /\ pct > 200 => opportunity.urgency = "CRITICAL"
            /\ (pct <= 200 /\ pre) => opportunity.urgency = "HIGH"
            /\ (pct <= 200 /\ ~pre) => opportunity.urgency = "NORMAL"

\* Exactly 2.00 on a listing that is ahead of Binance: HIGH, not CRITICAL.
C18_Witness ==
    /\ Produced
    /\ price_data.arbitrage_opportunity.profit_pct = 200
    /\ opportunity.opportunity_type = "PRE_BINANCE_LISTING"
    /\ opportunity.urgency = "HIGH"

\* C19: in every opportunity analyze_listing returns, HIGH implies type
\* PRE_BINANCE_LISTING, PRE_BINANCE_LISTING implies HIGH or CRITICAL,
\* BINANCE_LISTING and NEW_LISTING imply NORMAL, and CRITICAL implies two
\* responding venues with different prices.
C19_TypeAndUrgencyConsistent ==
    Produced =>
        LET type == opportunity.opportunity_type
            urgency == opportunity.urgency
        IN  /\ urgency = "HIGH" => type = "PRE_BINANCE_LISTING"
            /\ type = "PRE_BINANCE_LISTING" => urgency \in {"HIGH", "CRITICAL"}
            /\ type \in {"BINANCE_LISTING", "NEW_LISTING"} => urgency = "NORMAL"
            /\ urgency = "CRITICAL" =>
                   \E v, w \in Responding :
                       task_result[v].price # task_result[w].price

\* A Gate.io or MEXC listing that only Binance quotes: NEW_LISTING, NORMAL.
C19_Witness ==
    /\ Produced
    /\ source_exchange \in {"Gate.io", "MEXC"}
    /\ opportunity.opportunity_type = "NEW_LISTING"
    /\ opportunity.urgency = "NORMAL"

\* a = b for decimal numbers.
DecEq(a, b) ==
    IF a.e >= b.e THEN a.n = b.n * Pow10(a.e - b.e)
    ELSE b.n = a.n * Pow10(b.e - a.e)

\* C20: for every positive entry price target_1, target_2 and stop_loss are
\* the entry price times 1.50, 2.00, 0.85 for CRITICAL, times 1.30, 1.60,
\* 0.90 for HIGH and times 1.20, 1.40, 0.92 for NORMAL (entry 10 at CRITICAL
\* gives 15.0, 20.0, 8.5), and the entry price is the best_buy price.
C20_TargetsAreMultiplesOfEntry ==
    (Produced /\ opportunity.strategy.kind = "dict") =>
        LET st == opportunity.strategy
            entry == Dec(price_data.best_buy.price, price_exp)
            urgency == opportunity.urgency
            t1 == IF urgency = "CRITICAL" THEN 150
                  ELSE IF urgency = "HIGH" THEN 130 ELSE 120
            t2 == IF urgency = "CRITICAL" THEN 200
                  ELSE IF urgency = "HIGH" THEN 160 ELSE 140
            sl == IF urgency = "CRITICAL" THEN 85
                  ELSE IF urgency = "HIGH" THEN 90 ELSE 92
        IN  /\ st.entry_price = entry
            /\ st.entry_exchange = price_data.best_buy.exchange
            /\ DecEq(st.target_1, Dec(entry.n * t1, entry.e + 2))
            /\ DecEq(st.target_2, Dec(entry.n * t2, entry.e + 2))
            /\ DecEq(st.stop_loss, Dec(entry.n * sl, entry.e + 2))

\* _calculate_strategy has returned.
Calculated == st_strategy.kind # "none"
\* a < b for decimal numbers.
DecLess(a, b) ==
    IF a.e >= b.e THEN a.n < b.n * Pow10(a.e - b.e)
    ELSE a.n * Pow10(b.e - a.e) < b.n

\* C21: the strategy's position size and time window are 2-3% and 12-24
\* hours for CRITICAL and for HIGH, 1-2% and 24-48 hours for NORMAL.
C21_BandsFollowTier ==
    (Calculated /\ st_strategy.kind = "dict") =>
        IF st_urgency \in {"CRITICAL", "HIGH"}
        THEN /\ st_strategy.position_size = "2-3%"
             /\ st_strategy.time_window = "12-24 hours"
        ELSE /\ st_strategy.position_size = "1-2%"
             /\ st_strategy.time_window = "24-48 hours"

\* C22: for entry price 0 _calculate_strategy returns the 'No valid entry
\* price' error at every urgency, never a strategy record.
C22_ZeroEntryIsAnError ==
    (Calculated /\ st_price_data.best_buy.price = 0) =>
        st_strategy.kind = "error"

\* Entry price 0 at CRITICAL, answered with the error.
C22_Witness ==
    /\ Calculated
    /\ st_price_data.best_buy.price = 0
    /\ st_urgency = "CRITICAL"
    /\ st_strategy.kind = "error"

\* C30: for every positive entry price and every urgency the returned
\* strategy has stop_loss < entry_price < target_1 < target_2.
C30_TargetsOrderedAfterRounding ==
    (Calculated /\ st_price_data.best_buy.price > 0) =>
        /\ st_strategy.kind = "dict"
        /\ DecLess(st_strategy.stop_loss, st_strategy.entry_price)
        /\ DecLess(st_strategy.entry_price, st_strategy.target_1)
        /\ DecLess(st_strategy.target_1, st_strategy.target_2)

\* C25: the AI collaborator, absent or failing, never keeps analyze_listing
\* from returning its opportunity: whenever get_all_prices returned a
\* snapshot an opportunity with type, urgency and strategy is returned; for
\* HIGH and CRITICAL its recommendation is MANUAL_REVIEW, and for NORMAL the
\* AI is not consulted.
C25_AIFailureIsManualReview ==
    Snapshot =>
        /\ opportunity.kind = "dict"
        /\ opportunity.opportunity_type # ""
        /\ opportunity.strategy.kind # "none"
        /\ opportunity.urgency \in {"HIGH", "CRITICAL"} =>
               opportunity.ai_recommendation.value = "MANUAL_REVIEW"
        /\ opportunity.urgency = "NORMAL" =>
               opportunity.ai_recommendation = NoRecommendation

\* A CRITICAL opportunity whose AI call raised: the record of the except
\* branch is stored and the strategy is there.
C25_Witness ==
    /\ Produced
    /\ opportunity.urgency = "CRITICAL"
    /\ opportunity.ai_recommendation.key = "action"
    /\ opportunity.strategy.kind = "dict"

\* C23: a listing sourced from Gate.io or MEXC, the source venue quoting 48,
\* exactly one other venue quoting 50 and Binance not quoting, gives an
\* opportunity of type PRE_BINANCE_LISTING with profit 4.17, urgency
\* CRITICAL, entry venue the source venue, entry price 48 and target_1 72.0.
\* (Under SpecScenario every ticker of the source venue is 48 and every
\* other ticker 50.)
C23_EarlyListingEndToEnd ==
    (/\ Analysed
     /\ source_exchange \in quoted
     /\ "Binance" \notin quoted
     /\ Cardinality(quoted) = 2) =>
        /\ opportunity.kind = "dict"
        /\ opportunity.opportunity_type = "PRE_BINANCE_LISTING"
        /\ price_data.arbitrage_opportunity.profit_pct = 417
        /\ opportunity.urgency = "CRITICAL"
        /\ opportunity.strategy.kind = "dict"
        /\ opportunity.strategy.entry_exchange = source_exchange
        /\ opportunity.strategy.entry_price = Dec(48, 0)
        /\ DecEq(opportunity.strategy.target_1, Dec(72, 0))

\* C24: after any sequence of save_listings_to_db calls, batches holding the
\* same (symbol, exchange) several times included, the listings store holds
\* at most one record per (symbol, exchange), and the count the last call
\* returned is the number of records it inserted.
C24_OneRecordPerSymbolAndExchange ==
    /\ \A i, j \in DOMAIN listings_db :
           (/\ listings_db[i].symbol = listings_db[j].symbol
            /\ listings_db[i].exchange = listings_db[j].exchange) => i = j
    /\ saved_count = last_inserted

\* A call was given the same listing twice and has inserted it once, and
\* the store holds one symbol under both venues.
C24_Witness ==
    /\ batch_repeats
    /\ saved_count = 1
    /\ Len(listings_db) >= 3
    /\ \E i, j \in DOMAIN listings_db :
           /\ listings_db[i].symbol = listings_db[j].symbol
           /\ listings_db[i].exchange # listings_db[j].exchange

\* The claimed precedence of the urgencies: CRITICAL, then HIGH, then NORMAL.
UrgencyRank(u) ==
    CASE u = "CRITICAL" -> 1
      [] u = "HIGH" -> 2
      [] OTHER -> 3

\* C27: within a run of send_pending_alerts the opportunities are visited in
\* urgency order: no HIGH or NORMAL one before a CRITICAL one, no NORMAL one
\* before a HIGH one.
C27_AlertsInUrgencyOrder ==
    \A i, j \in DOMAIN processed :
        i < j => UrgencyRank(processed[i]) <= UrgencyRank(processed[j])

\* The opportunity records made from a stored listing.
OpportunitiesOf(listing) ==
    {j \in DOMAIN opportunities_db :
        /\ opportunities_db[j].symbol = listing.symbol
        /\ opportunities_db[j].source_exchange = listing.exchange}

\* The step is an iteration of process_new_listings' loop.
AnalysisStep == dpc = "running" /\ to_analyze' = Tail(to_analyze)

\* The step is the start of a process_new_listings run.
RunStarts == dpc = "idle" /\ dpc' = "running"

\* C28: over any number of process_new_listings runs a stored listing yields
\* at most one opportunity record and at most one completed analysis, which
\* marks it data_enriched; an analysis that raises leaves the listing
\* unmarked and the opportunities as they were, and the next run takes the
\* listing again.
C28_OneOpportunityPerListing ==
    /\ [](\A i \in DOMAIN listings_db :
              /\ Cardinality(OpportunitiesOf(listings_db[i])) <= 1
              /\ listings_db[i].analysed <= 1
              /\ listings_db[i].data_enriched <=> listings_db[i].analysed = 1)
    /\ [][/\ (AnalysisStep /\ analysis_outcome' = "raised") =>
                 /\ ~listings_db'[Head(to_analyze)].data_enriched
                 /\ opportunities_db' = opportunities_db
          /\ RunStarts =>
                 \A i \in DOMAIN listings_db :
                     (listings_db[i].raised /\ ~listings_db[i].data_enriched)
                         => \E k \in DOMAIN to_analyze' : to_analyze'[k] = i]_vars

\* A listing whose analysis raised in one run gave its one opportunity in a
\* later run, next to a listing that was analysed without an opportunity.
C28_Witness ==
    /\ \E i \in DOMAIN listings_db :
           /\ listings_db[i].raised
           /\ listings_db[i].data_enriched
           /\ Cardinality(OpportunitiesOf(listings_db[i])) = 1
    /\ \E i \in DOMAIN listings_db :
           /\ listings_db[i].data_enriched
           /\ OpportunitiesOf(listings_db[i]) = {}

\* The step is an iteration of send_pending_alerts' loop.
DeliveryStep == alpc = "running" /\ pending_alerts' = Tail(pending_alerts)

\* C29: over any number of send_pending_alerts runs an opportunity is
\* delivered at most once: only opportunities whose alert_sent is not true
\* are sent, alert_sent is true on the opportunity and on its source listing
\* exactly when a delivery of it succeeded, and a delivery that failed or
\* raised leaves the flags as they were.
C29_DeliveredAtMostOnce ==
    /\ [](/\ \A j \in DOMAIN opportunities_db :
                 /\ opportunities_db[j].delivered <= 1
                 /\ opportunities_db[j].alert_sent
                        <=> opportunities_db[j].delivered = 1
          /\ \A i \in DOMAIN listings_db :
                 listings_db[i].alert_sent
                     <=> \E j \in OpportunitiesOf(listings_db[i]) :
                             opportunities_db[j].delivered >= 1)
    /\ [][DeliveryStep =>
              /\ ~opportunities_db[Head(pending_alerts)].alert_sent
              /\ delivery_outcome' \in {"False", "raised"} =>
                     /\ \A j \in DOMAIN opportunities_db :
                            opportunities_db'[j].alert_sent
                                = opportunities_db[j].alert_sent
                     /\ \A i \in DOMAIN listings_db :
                            listings_db'[i].alert_sent
                                = listings_db[i].alert_sent]_vars

\* An opportunity whose delivery once failed or raised was delivered by a
\* later run, which set both flags, while another one is still pending.
C29_Witness ==
    /\ \E j \in DOMAIN opportunities_db :
           /\ opportunities_db[j].failed
           /\ opportunities_db[j].delivered = 1
           /\ opportunities_db[j].alert_sent
           /\ \E i \in DOMAIN listings_db :
                  /\ j \in OpportunitiesOf(listings_db[i])
                  /\ listings_db[i].alert_sent
    /\ \E j \in DOMAIN opportunities_db :
           /\ opportunities_db[j].failed
           /\ ~opportunities_db[j].alert_sent

\* The symbols of the listings in s.
SymbolsOf(s) == {s[i].symbol : i \in DOMAIN s}

====
